---- MODULE Spec2Model ----
(***************************************************************************)
(* sparrow-cli: the stream-response decoder of package client              *)
(* (ParseStreamResponse, ParseStreamResponseWithCallback) as it is driven  *)
(* by main: the logger is initialised, a response body arrives, the        *)
(* decoder scans it line by line, folds the chunks and returns.            *)
(*                                                                         *)
(* Go strings are sequences of characters, so that concatenation is \o.    *)
(* A raw line of the body is a sequence of tokens: a space, a literal word *)
(* ("data:", "[DONE]", other text), one JSON value, or a run of            *)
(* MaxScanTokenSize non-space bytes.                                       *)
(***************************************************************************)
EXTENDS Naturals, Sequences, FiniteSets

\* ------------------------------------------------------------------------
\* Bounds of the model
\* ------------------------------------------------------------------------
\* Longest response body, in lines.
MaxLines == 3

\* ------------------------------------------------------------------------
\* Tokens of a raw line
\* ------------------------------------------------------------------------
Sp == [k |-> "sp"]
Lit(s) == [k |-> "lit", s |-> s]
Json(v) == [k |-> "json", v |-> v]
Pad == [k |-> "pad"]

DataWord == Lit(<<"d", "a", "t", "a", ":">>)
DoneWord == Lit(<<"[", "D", "O", "N", "E", "]">>)
BadWord == Lit(<<"{", "b", "a", "d">>)

\* bufio.MaxScanTokenSize, the buffer limit of the scanner bufio.NewScanner
\* returns: a line that does not fit makes Scan fail with ErrTooLong.
MaxScanTokenSize == 65536

\* Bytes of a token. A JSON value is at least two bytes; the values of this
\* model are all far shorter than the scanner's limit.
TokLen(t) ==
    CASE t.k = "sp" -> 1
      [] t.k = "lit" -> Len(t.s)
      [] t.k = "json" -> 2
      [] t.k = "pad" -> MaxScanTokenSize

RECURSIVE ByteLen(_)
ByteLen(line) ==
    IF line = <<>> THEN 0 ELSE TokLen(Head(line)) + ByteLen(Tail(line))

\* ------------------------------------------------------------------------
\* JSON values
\* ------------------------------------------------------------------------
JNull == [t |-> "null"]
JStr(s) == [t |-> "str", s |-> s]
JNum(n) == [t |-> "num", n |-> n]
JObj(o) == [t |-> "obj", o |-> o]
JArr(a) == [t |-> "arr", a |-> a]

\* A member of a JSON object; a missing key decodes like null (the field keeps
\* its zero value).
Field(v, key) == IF key \in DOMAIN v.o THEN v.o[key] ELSE JNull

\* Go pointers: nil, or a pointer to a value.
Nil == [nil |-> TRUE]
Ptr(x) == [nil |-> FALSE, val |-> x]

\* encoding/json into a string field / an integer field.
StrOK(v) == v.t \in {"null", "str"}
StrVal(v) == IF v.t = "str" THEN v.s ELSE <<>>
IntOK(v) == v.t \in {"null", "num"}
IntVal(v) == IF v.t = "num" THEN v.n ELSE 0

\* type Usage struct
UsageOK(v) ==
    \/ v.t = "null"
    \/ /\ v.t = "obj"
       /\ IntOK(Field(v, "prompt_tokens"))
       /\ IntOK(Field(v, "completion_tokens"))
       /\ IntOK(Field(v, "total_tokens"))

ZeroUsage == [PromptTokens |-> 0, CompletionTokens |-> 0, TotalTokens |-> 0]

Usage(v) ==
    IF v.t # "obj" THEN ZeroUsage
    ELSE [PromptTokens |-> IntVal(Field(v, "prompt_tokens")),
          CompletionTokens |-> IntVal(Field(v, "completion_tokens")),
          TotalTokens |-> IntVal(Field(v, "total_tokens"))]

\* type StreamChunkDelta struct
StreamChunkDeltaOK(v) ==
    \/ v.t = "null"
    \/ /\ v.t = "obj"
       /\ StrOK(Field(v, "role"))
       /\ StrOK(Field(v, "content"))

StreamChunkDelta(v) ==
    IF v.t # "obj" THEN [Role |-> <<>>, Content |-> <<>>]
    ELSE [Role |-> StrVal(Field(v, "role")),
          Content |-> StrVal(Field(v, "content"))]

\* type StreamChunkChoice struct: FinishReason and Usage are pointers, nil when
\* the key is missing or null.
StreamChunkChoiceOK(v) ==
    \/ v.t = "null"
    \/ /\ v.t = "obj"
       /\ IntOK(Field(v, "index"))
       /\ StreamChunkDeltaOK(Field(v, "delta"))
       /\ StrOK(Field(v, "finish_reason"))
       /\ UsageOK(Field(v, "usage"))

StreamChunkChoice(v) ==
    IF v.t # "obj"
    THEN [Index |-> 0, Delta |-> StreamChunkDelta(JNull),
          FinishReason |-> Nil, Usage |-> Nil]
    ELSE [Index |-> IntVal(Field(v, "index")),
          Delta |-> StreamChunkDelta(Field(v, "delta")),
          FinishReason |->
              IF Field(v, "finish_reason").t = "str"
              THEN Ptr(Field(v, "finish_reason").s) ELSE Nil,
          Usage |->
              IF Field(v, "usage").t = "obj"
              THEN Ptr(Usage(Field(v, "usage"))) ELSE Nil]

\* type StreamChunk struct
ChoicesOK(v) ==
    \/ v.t = "null"
    \/ /\ v.t = "arr"
       /\ \A i \in 1..Len(v.a) : StreamChunkChoiceOK(v.a[i])

StreamChunkOK(v) ==
    \/ v.t = "null"
    \/ /\ v.t = "obj"
       /\ StrOK(Field(v, "id"))
       /\ StrOK(Field(v, "object"))
       /\ IntOK(Field(v, "created"))
       /\ StrOK(Field(v, "model"))
       /\ ChoicesOK(Field(v, "choices"))

StreamChunk(v) ==
    IF v.t # "obj"
    THEN [ID |-> <<>>, Object |-> <<>>, Created |-> 0, Model |-> <<>>,
          Choices |-> <<>>]
    ELSE [ID |-> StrVal(Field(v, "id")),
          Object |-> StrVal(Field(v, "object")),
          Created |-> IntVal(Field(v, "created")),
          Model |-> StrVal(Field(v, "model")),
          Choices |->
              IF Field(v, "choices").t = "arr"
              THEN [i \in 1..Len(Field(v, "choices").a) |->
                        StreamChunkChoice(Field(v, "choices").a[i])]
              ELSE <<>>]

\* ------------------------------------------------------------------------
\* strings.TrimSpace, strings.HasPrefix, json.Unmarshal
\* ------------------------------------------------------------------------
RECURSIVE TrimLeft(_)
TrimLeft(line) ==
    IF line # <<>> /\ Head(line) = Sp THEN TrimLeft(Tail(line)) ELSE line

RECURSIVE TrimRight(_)
TrimRight(line) ==
    IF line # <<>> /\ line[Len(line)] = Sp
    THEN TrimRight(SubSeq(line, 1, Len(line) - 1))
    ELSE line

TrimSpace(line) == TrimRight(TrimLeft(line))

\* strings.HasPrefix(line, "data: ")
HasPrefix(line) == Len(line) >= 2 /\ line[1] = DataWord /\ line[2] = Sp

\* line[6:]
JsonData(line) == SubSeq(line, 3, Len(line))

\* line == "data: [DONE]"
IsDone(line) == line = <<DataWord, Sp, DoneWord>>

\* json.Unmarshal([]byte(jsonData), &chunk): the text (white space around it
\* allowed) must be one JSON value, and the value must fit the struct.
Unmarshal(jsonData) ==
    LET text == TrimSpace(jsonData)
    IN  IF Len(text) = 1 /\ text[1].k = "json" /\ StreamChunkOK(text[1].v)
        THEN [err |-> FALSE, chunk |-> StreamChunk(text[1].v)]
        ELSE [err |-> TRUE, chunk |-> StreamChunk(JNull)]

\* ------------------------------------------------------------------------
\* The response bodies the transport delivers
\* ------------------------------------------------------------------------
\* AssistantRole Role = "assistant"
AssistantRole == <<"a", "s", "s", "i", "s", "t", "a", "n", "t">>

ChunkA ==
    JObj([id |-> JStr(<<"c", "1">>),
          object |-> JStr(<<"c", "h", "u", "n", "k">>),
          created |-> JNum(1),
          model |-> JStr(<<"m">>),
          choices |-> JArr(<<
              JObj([index |-> JNum(0),
                    delta |-> JObj([role |-> JStr(AssistantRole),
                                    content |-> JStr(<<"H", "i">>)])])>>)])

ChunkB ==
    JObj([id |-> JStr(<<"c", "2">>),
          object |-> JStr(<<"c", "h", "u", "n", "k">>),
          created |-> JNum(2),
          model |-> JStr(<<"n">>),
          choices |-> JArr(<<
              JObj([index |-> JNum(1),
                    delta |-> JObj([role |-> JStr(<<"u", "s", "e", "r">>),
                                    content |-> JStr(<<"x">>)]),
                    finish_reason |-> JStr(<<"l", "e", "n">>),
                    usage |-> JObj([prompt_tokens |-> JNum(1),
                                    completion_tokens |-> JNum(1),
                                    total_tokens |-> JNum(2)])])>>)])

ChunkC ==
    JObj([id |-> JStr(<<"c", "1">>),
          created |-> JNum(1),
          model |-> JStr(<<"m">>),
          choices |-> JArr(<<
              JObj([index |-> JNum(0),
                    delta |-> JObj([content |-> JStr(<<>>)]),
                    finish_reason |-> JStr(<<"s", "t", "o", "p">>),
                    usage |-> JObj([prompt_tokens |-> JNum(3),
                                    completion_tokens |-> JNum(2),
                                    total_tokens |-> JNum(5)])])>>)])

\* An empty id beside a model and a creation time; no choices.
ChunkD ==
    JObj([id |-> JStr(<<>>),
          created |-> JNum(3),
          model |-> JStr(<<"k">>),
          choices |-> JArr(<<>>)])

\* No metadata; a first choice that carries nothing and a second one that
\* carries content, a finish reason and a usage.
ChunkE ==
    JObj([choices |-> JArr(<<
              JObj([delta |-> JObj(<<>>), finish_reason |-> JNull]),
              JObj([index |-> JNum(1),
                    delta |-> JObj([content |-> JStr(<<"z">>)]),
                    finish_reason |-> JStr(<<"s", "t", "o", "p">>),
                    usage |-> JObj([prompt_tokens |-> JNum(9),
                                    completion_tokens |-> JNum(9),
                                    total_tokens |-> JNum(9)])])>>)])

\* Well-formed JSON that does not fit the struct: "id" is a number.
ChunkF ==
    JObj([id |-> JNum(5),
          model |-> JStr(<<"q">>),
          choices |-> JArr(<<
              JObj([delta |-> JObj([content |-> JStr(<<"q">>)]),
                    finish_reason |-> JStr(<<"q">>)])>>)])

DoneLine == <<DataWord, Sp, DoneWord>>

Lines ==
    << <<>>,                                        \* an empty line
       DoneLine,                                    \* data: [DONE]
       <<DataWord, Json(ChunkA)>>,                  \* data:{...}, no space
       <<DataWord, Sp, Json(ChunkA)>>,
       <<DataWord, Sp, Json(ChunkB)>>,
       <<DataWord, Sp, Json(ChunkC)>>,
       <<Sp, DataWord, Sp, Sp, Json(ChunkD), Sp>>,  \* spaces around and inside
       <<DataWord, Sp, Json(ChunkE)>>,
       <<DataWord, Sp, BadWord>>,                   \* data: {bad
       <<DataWord, Sp, Json(ChunkF)>>,
       <<Pad>> >>                                   \* a line of 64 KiB

LineIds == 1..Len(Lines)

Bodies == UNION {[1..n -> LineIds] : n \in 0..MaxLines}

\* What follows the prefix in the lines, as read and trimmed, and
\* json.Unmarshal of each, tabulated.
Payloads ==
    {JsonData(Lines[i]) : i \in LineIds}
        \cup {JsonData(TrimSpace(Lines[i])) : i \in LineIds}

Decoded == [jsonData \in Payloads |-> Unmarshal(jsonData)]

\* ------------------------------------------------------------------------
\* State
\* ------------------------------------------------------------------------
VARIABLES
    logger,          \* logger.logger is set (InitLogger has run)
    pc,              \* where main / the decode call stands
    fn,              \* the decode function called
    callback,        \* its callback argument: "nil" or "set"
    body,            \* resp.Body: the raw lines the transport holds (for
                     \* ParseResponse, the document it holds)
    pos,             \* lines the scanner has consumed
    scanErr,         \* scanner.Err(): "nil", "io" or "ErrTooLong"
    result,          \* result *ResponseBody
    contentBuilder,  \* contentBuilder strings.Builder
    calls,           \* the calls made to callback, in order
    ret,             \* what the call returned
    closed,          \* calls of resp.Body.Close()
    messages,        \* main: messages []client.Message
    requests,        \* main: the messages of each request built, in order
    stdin            \* main: the lines read from os.Stdin, in order

vars == <<logger, pc, fn, callback, body, pos, scanErr, result,
          contentBuilder, calls, ret, closed, messages, requests, stdin>>

\* The variables of the loop of main.
mainVars == <<messages, requests, stdin>>

\* "chat.completion"
ChatCompletion == <<"c", "h", "a", "t", ".", "c", "o", "m", "p", "l", "e", "t", "i", "o", "n">>

\* &ResponseBody{Choices: make([]Choice, 1)} with Choices[0].Message.Role set
NewResult ==
    [ID |-> <<>>, Object |-> <<>>, Created |-> 0, Model |-> <<>>,
     Choices |-> <<[Index |-> 0,
                    Message |-> [Role |-> AssistantRole, Content |-> <<>>],
                    FinishReason |-> <<>>]>>,
     Usage |-> ZeroUsage]

NoRet == [returned |-> FALSE]

\* The locals of a decode call that the loop body works on.
Locals ==
    [result |-> result, contentBuilder |-> contentBuilder, calls |-> calls,
     pc |-> pc]

\* ------------------------------------------------------------------------
\* The pieces of the loop bodies
\* ------------------------------------------------------------------------
\* if callback != nil { callback(content, isFinished) }; the callback of main
\* is printContent, which returns.
Callback(cs, cb, content, isFinished) ==
    IF cb # "nil"
    THEN Append(cs, [content |-> content, isFinished |-> isFinished])
    ELSE cs

\* logger.Warn: logger.Warnf on the package's logger, a nil pointer before
\* InitLogger has run.
Warn(st, lg) == IF lg THEN st ELSE [st EXCEPT !.pc = "Panicked"]

\* --- ParseStreamResponseWithCallback ------------------------------------
\* Mutant of PSRC_Done: breaks without the finished call.
PSRC_Done_Silent(st, cb) == [st EXCEPT !.pc = "Terminated"]

\* the end marker: notify and break
PSRC_Done(st, cb) ==
    [st EXCEPT !.calls = Callback(@, cb, <<>>, TRUE), !.pc = "Terminated"]

\* if result.ID == "" { ... }
PSRC_Latch(res, chunk) ==
    IF res.ID = <<>>
    THEN [res EXCEPT !.ID = chunk.ID,
                     !.Object = ChatCompletion,
                     !.Created = chunk.Created,
                     !.Model = chunk.Model]
    ELSE res

\* Mutant of PSRC_Content: the fragment is notified and not written.
PSRC_Content_NotifyOnly(st, cb, choice) ==
    IF choice.Delta.Content # <<>>
    THEN [st EXCEPT !.calls = Callback(@, cb, choice.Delta.Content, FALSE)]
    ELSE st

\* Mutant of PSRC_Content: the fragment goes in front of the buffer.
PSRC_Content_Prepend(st, cb, choice) ==
    IF choice.Delta.Content # <<>>
    THEN [st EXCEPT !.contentBuilder = choice.Delta.Content \o @,
                    !.calls = Callback(@, cb, choice.Delta.Content, FALSE)]
    ELSE st

\* if choice.Delta.Content != "" { WriteString; callback }
PSRC_Content(st, cb, choice) ==
    IF choice.Delta.Content # <<>>
    THEN [st EXCEPT !.contentBuilder = @ \o choice.Delta.Content,
                    !.calls = Callback(@, cb, choice.Delta.Content, FALSE)]
    ELSE st

\* Mutant of PSRC_FinishReason: the first finish reason is kept.
PSRC_FinishReason_FirstWins(st, choice) ==
    IF ~choice.FinishReason.nil /\ st.result.Choices[1].FinishReason = <<>>
    THEN [st EXCEPT !.result.Choices[1].FinishReason = choice.FinishReason.val]
    ELSE st

\* if choice.FinishReason != nil { ... }
PSRC_FinishReason(st, choice) ==
    IF ~choice.FinishReason.nil
    THEN [st EXCEPT !.result.Choices[1].FinishReason = choice.FinishReason.val]
    ELSE st

\* Mutant of PSRC_Usage: the token counts are added up.
PSRC_Usage_Accumulate(st, choice) ==
    IF ~choice.Usage.nil
    THEN [st EXCEPT
             !.result.Usage.PromptTokens = @ + choice.Usage.val.PromptTokens,
             !.result.Usage.CompletionTokens =
                 @ + choice.Usage.val.CompletionTokens,
             !.result.Usage.TotalTokens = @ + choice.Usage.val.TotalTokens]
    ELSE st

\* if choice.Usage != nil { ... }
PSRC_Usage(st, choice) ==
    IF ~choice.Usage.nil
    THEN [st EXCEPT !.result.Usage = choice.Usage.val]
    ELSE st

\* Mutant of PSRC_Choices: the role of the delta is copied into the result.
PSRC_Choices_CopyRole(st, cb, chunk) ==
    IF Len(chunk.Choices) > 0
    THEN LET choice == chunk.Choices[1]
             copied ==
                 IF choice.Delta.Role # <<>>
                 THEN [st EXCEPT
                          !.result.Choices[1].Message.Role = choice.Delta.Role]
                 ELSE st
         IN  PSRC_Usage(PSRC_FinishReason(PSRC_Content(copied, cb, choice),
                                          choice), choice)
    ELSE st

\* if len(chunk.Choices) > 0 { choice := chunk.Choices[0]; ... }
PSRC_Choices(st, cb, chunk) ==
    IF Len(chunk.Choices) > 0
    THEN LET choice == chunk.Choices[1]
         IN  PSRC_Usage(PSRC_FinishReason(PSRC_Content(st, cb, choice),
                                          choice), choice)
    ELSE st

\* Mutant of PSRC_Data: a payload that fails to decode ends the loop.
PSRC_Data_Abort(st, cb, lg, jsonData) ==
    LET u == Decoded[jsonData]
    IN  IF u.err
        THEN [Warn(st, lg) EXCEPT !.pc = "Terminated"]
        ELSE PSRC_Choices([st EXCEPT !.result = PSRC_Latch(@, u.chunk)],
                          cb, u.chunk)

\* a data line: decode, then skip it or fold the chunk
PSRC_Data(st, cb, lg, jsonData) ==
    LET u == Decoded[jsonData]
    IN  IF u.err
        THEN Warn(st, lg)
        ELSE PSRC_Choices([st EXCEPT !.result = PSRC_Latch(@, u.chunk)],
                          cb, u.chunk)

\* one pass of the loop body on scanner.Text()
PSRC_Line(st, cb, lg, text) ==
    LET line == TrimSpace(text)
    IN  IF line = <<>> THEN st
        ELSE IF IsDone(line) THEN PSRC_Done(st, cb)
        ELSE IF HasPrefix(line) THEN PSRC_Data(st, cb, lg, JsonData(line))
        ELSE st

\* result.Choices[0].Message.Content = contentBuilder.String(); Index = 0
PSRC_Final(res, builder) ==
    [res EXCEPT !.Choices[1].Message.Content = builder,
                !.Choices[1].Index = 0]

\* --- ParseStreamResponse -------------------------------------------------
\* Mutant of PSR_Done: the loop reads on after the end marker.
PSR_Done_ReadsOn(st) == st

\* the end marker: break
PSR_Done(st) == [st EXCEPT !.pc = "Terminated"]

PSR_Latch(res, chunk) ==
    IF res.ID = <<>>
    THEN [res EXCEPT !.ID = chunk.ID,
                     !.Object = ChatCompletion,
                     !.Created = chunk.Created,
                     !.Model = chunk.Model]
    ELSE res

PSR_Content(st, choice) ==
    IF choice.Delta.Content # <<>>
    THEN [st EXCEPT !.contentBuilder = @ \o choice.Delta.Content]
    ELSE st

PSR_FinishReason(st, choice) ==
    IF ~choice.FinishReason.nil
    THEN [st EXCEPT !.result.Choices[1].FinishReason = choice.FinishReason.val]
    ELSE st

\* Mutant of PSR_Usage: the usage of the chunk is dropped.
PSR_Usage_Dropped(st, choice) == st

\* if choice.Usage != nil { ... }
PSR_Usage(st, choice) ==
    IF ~choice.Usage.nil
    THEN [st EXCEPT !.result.Usage = choice.Usage.val]
    ELSE st

\* Mutant of PSR_Choices: the last choice of the chunk is the one processed.
PSR_Choices_LastChoice(st, chunk) ==
    IF Len(chunk.Choices) > 0
    THEN LET choice == chunk.Choices[Len(chunk.Choices)]
         IN  PSR_Usage(PSR_FinishReason(PSR_Content(st, choice), choice),
                       choice)
    ELSE st

\* if len(chunk.Choices) > 0 { choice := chunk.Choices[0]; ... }
PSR_Choices(st, chunk) ==
    IF Len(chunk.Choices) > 0
    THEN LET choice == chunk.Choices[1]
         IN  PSR_Usage(PSR_FinishReason(PSR_Content(st, choice), choice),
                       choice)
    ELSE st

PSR_Data(st, lg, jsonData) ==
    LET u == Decoded[jsonData]
    IN  IF u.err
        THEN Warn(st, lg)
        ELSE PSR_Choices([st EXCEPT !.result = PSR_Latch(@, u.chunk)],
                         u.chunk)

PSR_Line(st, lg, text) ==
    LET line == TrimSpace(text)
    IN  IF line = <<>> THEN st
        ELSE IF IsDone(line) THEN PSR_Done(st)
        ELSE IF HasPrefix(line) THEN PSR_Data(st, lg, JsonData(line))
        ELSE st

PSR_Final(res, builder) ==
    [res EXCEPT !.Choices[1].Message.Content = builder,
                !.Choices[1].Index = 0]

\* ------------------------------------------------------------------------
\* The scanner
\* ------------------------------------------------------------------------
\* The branch of the loop body a trimmed line takes.
Branch(text) ==
    LET line == TrimSpace(text)
    IN  IF line = <<>> THEN "blank"
        ELSE IF IsDone(line) THEN "done"
        ELSE IF HasPrefix(line)
             THEN IF Unmarshal(JsonData(line)).err THEN "malformed"
                  ELSE "chunk"
        ELSE "other"

\* Branch, the fit into the scanner's buffer and the decoded payload of each
\* line of Lines, tabulated.
LineBranch == [i \in LineIds |-> Branch(Lines[i])]

LineFits == [i \in LineIds |-> ByteLen(Lines[i]) < MaxScanTokenSize]

LineChunk == [i \in LineIds |-> Unmarshal(JsonData(TrimSpace(Lines[i]))).chunk]

\* scanner.Scan() yields the next line when one is left and it fits the buffer.
CanScan(b, p) == p < Len(b) /\ LineFits[b[p + 1]]

\* scanner.Scan() fails on a line that does not fit.
TooLong(b, p) == p < Len(b) /\ ~LineFits[b[p + 1]]

\* ------------------------------------------------------------------------
\* Actions
\* ------------------------------------------------------------------------
Functions == {"ParseStreamResponse", "ParseStreamResponseWithCallback"}

Init ==
    /\ logger = FALSE
    /\ pc = "Boot"
    /\ fn = "ParseStreamResponseWithCallback"
    /\ callback = "nil"
    /\ body = <<>>
    /\ pos = 0
    /\ scanErr = "nil"
    /\ result = NewResult
    /\ contentBuilder = <<>>
    /\ calls = <<>>
    /\ ret = NoRet
    /\ closed = 0
    /\ messages = <<>>
    /\ requests = <<>>
    /\ stdin = <<>>

\* main: initComponents, which stops the program unless InitLogger succeeds
InitComponents ==
    /\ pc = "Boot"
    /\ logger' = TRUE
    /\ pc' = "Idle"
    /\ UNCHANGED mainVars
    /\ UNCHANGED <<fn, callback, body, pos, scanErr, result, contentBuilder,
                   calls, ret, closed>>

\* A response arrives and a decode function is called on it: the deferred
\* Close is registered, result and the scanner are created.
StartDecode ==
    /\ pc = "Idle"
    /\ \E f \in Functions, cb \in {"nil", "set"}, b \in Bodies :
          /\ f = "ParseStreamResponse" => cb = "nil"
          /\ fn' = f
          /\ callback' = cb
          /\ body' = b
    /\ pos' = 0
    /\ scanErr' = "nil"
    /\ result' = NewResult
    /\ contentBuilder' = <<>>
    /\ calls' = <<>>
    /\ ret' = NoRet
    /\ closed' = 0
    /\ pc' = "Reading"
    /\ UNCHANGED mainVars
    /\ UNCHANGED logger

\* One pass of the loop of function f on the line just scanned.
LoopBody(f, cb, lg, st, text) ==
    IF f = "ParseStreamResponse"
    THEN PSR_Line(st, lg, text)
    ELSE PSRC_Line(st, cb, lg, text)

\* The last statements of function f.
Final(f, res, builder) ==
    IF f = "ParseStreamResponse"
    THEN PSR_Final(res, builder)
    ELSE PSRC_Final(res, builder)

\* scanner.Scan() returns true and the line takes branch br of the body.
Iterate(br) ==
    /\ pc = "Reading"
    /\ CanScan(body, pos)
    /\ LineBranch[body[pos + 1]] = br
    /\ LET st == LoopBody(fn, callback, logger, Locals, Lines[body[pos + 1]])
       IN  /\ result' = st.result
           /\ contentBuilder' = st.contentBuilder
           /\ calls' = st.calls
           /\ pc' = st.pc
    /\ pos' = pos + 1
    /\ UNCHANGED mainVars
    /\ UNCHANGED <<logger, fn, callback, body, scanErr, ret, closed>>

BlankLine == Iterate("blank")

TerminatorLine == Iterate("done")

MalformedLine == Iterate("malformed")

ChunkLine == Iterate("chunk")

OtherLine == Iterate("other")

\* Mutant of EndOfStream: the end of the body is notified as finished.
EndOfStream_Notifies ==
    /\ pc = "Reading"
    /\ pos = Len(body)
    /\ scanErr = "nil"
    /\ pc' = "EndOfStream"
    /\ calls' = Callback(calls, callback, <<>>, TRUE)
    /\ UNCHANGED mainVars
    /\ UNCHANGED <<logger, fn, callback, body, pos, scanErr, result,
                   contentBuilder, ret, closed>>

\* scanner.Scan() returns false at the end of the body, scanner.Err() is nil.
EndOfStream ==
    /\ pc = "Reading"
    /\ pos = Len(body)
    /\ scanErr = "nil"
    /\ pc' = "EndOfStream"
    /\ UNCHANGED mainVars
    /\ UNCHANGED <<logger, fn, callback, body, pos, scanErr, result,
                   contentBuilder, calls, ret, closed>>

\* The read of the body fails while the scanner looks for the end of the last
\* line: the scanner keeps the error and, when it holds bytes of that line,
\* scanner.Scan() still returns true once, with those bytes as the line.
ReadErrorInLine ==
    /\ pc = "Reading"
    /\ scanErr = "nil"
    /\ pos + 1 = Len(body)
    /\ LineFits[body[pos + 1]]
    /\ Lines[body[pos + 1]] # <<>>
    /\ scanErr' = "io"
    /\ UNCHANGED mainVars
    /\ UNCHANGED <<logger, pc, fn, callback, body, pos, result,
                   contentBuilder, calls, ret, closed>>

\* scanner.Scan() returns false because the read of the body failed.
ReadError ==
    /\ pc = "Reading"
    /\ pos = Len(body)
    /\ scanErr' = "io"
    /\ pc' = "Failed"
    /\ UNCHANGED mainVars
    /\ UNCHANGED <<logger, fn, callback, body, pos, result, contentBuilder,
                   calls, ret, closed>>

\* scanner.Scan() returns false because the next line does not fit the buffer.
LineTooLong ==
    /\ pc = "Reading"
    /\ TooLong(body, pos)
    /\ scanErr' = "ErrTooLong"
    /\ pc' = "Failed"
    /\ UNCHANGED mainVars
    /\ UNCHANGED <<logger, fn, callback, body, pos, result, contentBuilder,
                   calls, ret, closed>>

\* scanner.Err() is nil: the content is set and the result returned; the
\* deferred function closes the body.
ReturnResult ==
    /\ pc \in {"Terminated", "EndOfStream"}
    /\ scanErr = "nil"
    /\ result' = Final(fn, result, contentBuilder)
    /\ ret' = [returned |-> TRUE, err |-> FALSE, result |-> Ptr(result')]
    /\ closed' = closed + 1
    /\ pc' = "Returned"
    /\ UNCHANGED mainVars
    /\ UNCHANGED <<logger, fn, callback, body, pos, scanErr, contentBuilder,
                   calls>>

\* Mutant of ReturnError: the body is left open when an error is returned.
ReturnError_Leak ==
    /\ pc \in {"Terminated", "Failed"}
    /\ scanErr # "nil"
    /\ ret' = [returned |-> TRUE, err |-> TRUE, result |-> Nil]
    /\ pc' = "Returned"
    /\ UNCHANGED mainVars
    /\ UNCHANGED <<logger, fn, callback, body, pos, scanErr, result,
                   contentBuilder, calls, closed>>

\* scanner.Err() is not nil: nil and an error are returned; the deferred
\* function closes the body.
ReturnError ==
    /\ pc \in {"Terminated", "Failed"}
    /\ scanErr # "nil"
    /\ ret' = [returned |-> TRUE, err |-> TRUE, result |-> Nil]
    /\ closed' = closed + 1
    /\ pc' = "Returned"
    /\ UNCHANGED mainVars
    /\ UNCHANGED <<logger, fn, callback, body, pos, scanErr, result,
                   contentBuilder, calls>>

\* --- ParseResponse -------------------------------------------------------
\* type Message struct
MessageOK(v) ==
    \/ v.t = "null"
    \/ /\ v.t = "obj"
       /\ StrOK(Field(v, "role"))
       /\ StrOK(Field(v, "content"))

Message(v) ==
    IF v.t # "obj" THEN [Role |-> <<>>, Content |-> <<>>]
    ELSE [Role |-> StrVal(Field(v, "role")),
          Content |-> StrVal(Field(v, "content"))]

\* type Choice struct
ChoiceOK(v) ==
    \/ v.t = "null"
    \/ /\ v.t = "obj"
       /\ IntOK(Field(v, "index"))
       /\ MessageOK(Field(v, "message"))
       /\ StrOK(Field(v, "finish_reason"))

Choice(v) ==
    IF v.t # "obj"
    THEN [Index |-> 0, Message |-> Message(JNull), FinishReason |-> <<>>]
    ELSE [Index |-> IntVal(Field(v, "index")),
          Message |-> Message(Field(v, "message")),
          FinishReason |-> StrVal(Field(v, "finish_reason"))]

\* type ResponseBody struct
ResponseBodyOK(v) ==
    \/ v.t = "null"
    \/ /\ v.t = "obj"
       /\ StrOK(Field(v, "id"))
       /\ StrOK(Field(v, "object"))
       /\ IntOK(Field(v, "created"))
       /\ StrOK(Field(v, "model"))
       /\ \/ Field(v, "choices").t = "null"
          \/ /\ Field(v, "choices").t = "arr"
             /\ \A i \in 1..Len(Field(v, "choices").a) :
                    ChoiceOK(Field(v, "choices").a[i])
       /\ UsageOK(Field(v, "usage"))

ResponseBody(v) ==
    IF v.t # "obj"
    THEN [ID |-> <<>>, Object |-> <<>>, Created |-> 0, Model |-> <<>>,
          Choices |-> <<>>, Usage |-> ZeroUsage]
    ELSE [ID |-> StrVal(Field(v, "id")),
          Object |-> StrVal(Field(v, "object")),
          Created |-> IntVal(Field(v, "created")),
          Model |-> StrVal(Field(v, "model")),
          Choices |->
              IF Field(v, "choices").t = "arr"
              THEN [i \in 1..Len(Field(v, "choices").a) |->
                        Choice(Field(v, "choices").a[i])]
              ELSE <<>>,
          Usage |-> Usage(Field(v, "usage"))]

\* json.Unmarshal(body, &responseBody)
UnmarshalResponse(data) ==
    LET text == TrimSpace(data)
    IN  IF Len(text) = 1 /\ text[1].k = "json" /\ ResponseBodyOK(text[1].v)
        THEN [err |-> FALSE, responseBody |-> ResponseBody(text[1].v)]
        ELSE [err |-> TRUE, responseBody |-> ResponseBody(JNull)]

\* A completion as the service sends it without streaming.
CompletionA ==
    JObj([id |-> JStr(<<"r", "1">>),
          object |-> JStr(ChatCompletion),
          created |-> JNum(1),
          model |-> JStr(<<"m">>),
          choices |-> JArr(<<
              JObj([index |-> JNum(0),
                    message |-> JObj([role |-> JStr(AssistantRole),
                                      content |-> JStr(<<"H", "i">>)]),
                    finish_reason |-> JStr(<<"s", "t", "o", "p">>)])>>),
          usage |-> JObj([prompt_tokens |-> JNum(1),
                          completion_tokens |-> JNum(1),
                          total_tokens |-> JNum(2)])])

\* The documents a response without streaming holds: a completion, a
\* document whose id is a number, and text that is not JSON.
Documents == << <<Json(CompletionA)>>, <<Json(ChunkF)>>, <<BadWord>> >>

\* ParseResponse is called on a response: the deferred Close is registered.
ParseResponse_Start ==
    /\ pc = "Idle"
    /\ fn' = "ParseResponse"
    /\ callback' = "nil"
    /\ \E d \in 1..Len(Documents) : body' = <<d>>
    /\ pos' = 0
    /\ scanErr' = "nil"
    /\ result' = NewResult
    /\ contentBuilder' = <<>>
    /\ calls' = <<>>
    /\ ret' = NoRet
    /\ closed' = 0
    /\ pc' = "ReadAll"
    /\ UNCHANGED mainVars
    /\ UNCHANGED logger

\* io.ReadAll(resp.Body) returns the bytes of the body.
ParseResponse_ReadAll ==
    /\ pc = "ReadAll"
    /\ pc' = "Unmarshal"
    /\ UNCHANGED mainVars
    /\ UNCHANGED <<logger, fn, callback, body, pos, scanErr, result,
                   contentBuilder, calls, ret, closed>>

\* io.ReadAll(resp.Body) returns an error: nil and the error are returned;
\* the deferred function closes the body.
ParseResponse_ReadAllError ==
    /\ pc = "ReadAll"
    /\ ret' = [returned |-> TRUE, err |-> TRUE, result |-> Nil]
    /\ closed' = closed + 1
    /\ pc' = "Returned"
    /\ UNCHANGED mainVars
    /\ UNCHANGED <<logger, fn, callback, body, pos, scanErr, result,
                   contentBuilder, calls>>

\* json.Unmarshal and the return of its error or of &responseBody; the
\* deferred function closes the body.
ParseResponse_Unmarshal ==
    /\ pc = "Unmarshal"
    /\ LET u == UnmarshalResponse(Documents[body[1]])
       IN  ret' = IF u.err
                  THEN [returned |-> TRUE, err |-> TRUE, result |-> Nil]
                  ELSE [returned |-> TRUE, err |-> FALSE,
                        result |-> Ptr(u.responseBody)]
    /\ closed' = closed + 1
    /\ pc' = "Returned"
    /\ UNCHANGED mainVars
    /\ UNCHANGED <<logger, fn, callback, body, pos, scanErr, result,
                   contentBuilder, calls>>

Next ==
    \/ InitComponents
    \/ StartDecode
    \/ ParseResponse_Start
    \/ ParseResponse_ReadAll
    \/ ParseResponse_ReadAllError
    \/ ParseResponse_Unmarshal
    \/ BlankLine
    \/ TerminatorLine
    \/ MalformedLine
    \/ ChunkLine
    \/ OtherLine
    \/ EndOfStream
    \/ ReadErrorInLine
    \/ ReadError
    \/ LineTooLong
    \/ ReturnResult
    \/ ReturnError

Spec == Init /\ [][Next]_vars

\* ------------------------------------------------------------------------
\* What the claims speak of
\* ------------------------------------------------------------------------
\* The raw lines of a body.
Texts(b) == [i \in 1..Len(b) |-> Lines[b[i]]]

\* The stream decode call has returned a result and no error.
ReturnedOK == fn \in Functions /\ ret.returned /\ ~ret.err

\* The result returned (ReturnedOK).
Returned == ret.result.val

\* The chunks successfully decoded from the lines, of body b, that precede
\* the first end marker (all lines when there is none), in arrival order.
RECURSIVE ChunksBefore(_)
ChunksBefore(b) ==
    IF b = <<>> \/ LineBranch[Head(b)] = "done" THEN <<>>
    ELSE IF LineBranch[Head(b)] = "chunk"
         THEN <<LineChunk[Head(b)]>> \o ChunksBefore(Tail(b))
         ELSE ChunksBefore(Tail(b))

\* delta.content of the first choice of a chunk.
Fragment(chunk) ==
    IF Len(chunk.Choices) > 0 THEN chunk.Choices[1].Delta.Content ELSE <<>>

RECURSIVE Concat(_)
Concat(chunks) ==
    IF chunks = <<>> THEN <<>>
    ELSE Fragment(Head(chunks)) \o Concat(Tail(chunks))

\* The positions of the calls with isFinished = true.
FinishedCalls == {i \in 1..Len(calls) : calls[i].isFinished}

\* Some line of the body is a data line carrying the JSON value v.
Carries(v) ==
    \E i \in 1..Len(body) : Lines[body[i]] = <<DataWord, Sp, Json(v)>>

\* C1: when a decode call returns without error, the content of the first
\* choice is the concatenation, in arrival order, of delta.content of the
\* first choice of every chunk decoded before the end marker; a chunk with
\* empty content adds nothing and causes no call of the callback.
C1_FragmentOrder ==
    ReturnedOK =>
        LET chunks == ChunksBefore(body)
        IN  /\ Returned.Choices[1].Message.Content = Concat(chunks)
            /\ \A i \in 1..Len(calls) :
                   ~calls[i].isFinished => calls[i].content # <<>>
            /\ callback = "set" =>
                   Cardinality({i \in 1..Len(calls) : ~calls[i].isFinished})
                       = Cardinality({j \in 1..Len(chunks) :
                                         Fragment(chunks[j]) # <<>>})

\* C1 witness: three chunks, the middle one with empty content, were folded
\* and notified.
C1_Witness ==
    /\ ReturnedOK
    /\ callback = "set"
    /\ Len(ChunksBefore(body)) = 3
    /\ Fragment(ChunksBefore(body)[2]) = <<>>
    /\ Returned.Choices[1].Message.Content = <<"H", "i", "x">>
    /\ Len(calls) = 2

\* The calls the lines of body b call for: one per non-empty fragment, then
\* the finished call at the end marker, after which nothing is read.
RECURSIVE ExpectedCalls(_)
ExpectedCalls(b) ==
    IF b = <<>> THEN <<>>
    ELSE IF LineBranch[Head(b)] = "done"
         THEN <<[content |-> <<>>, isFinished |-> TRUE]>>
    ELSE IF /\ LineBranch[Head(b)] = "chunk"
            /\ Fragment(LineChunk[Head(b)]) # <<>>
         THEN <<[content |-> Fragment(LineChunk[Head(b)]),
                 isFinished |-> FALSE]>> \o ExpectedCalls(Tail(b))
    ELSE ExpectedCalls(Tail(b))

\* C2: with a callback, after every line the calls made so far are exactly
\* one (fragment, false) per non-empty fragment of the lines read, in order,
\* followed by one ("", true) iff the end marker was read; the finished call
\* is the last one.
C2_NotificationSequence ==
    (pc \notin {"Boot", "Idle"} /\ callback = "set") =>
        /\ calls = ExpectedCalls(SubSeq(body, 1, pos))
        /\ \A i \in FinishedCalls : i = Len(calls) /\ calls[i].content = <<>>
        /\ Cardinality(FinishedCalls) <= 1
        /\ (FinishedCalls # {}) <=>
               (\E i \in 1..pos : LineBranch[body[i]] = "done")

\* C2 witness: two fragments and then the finished call.
C2_Witness ==
    /\ callback = "set"
    /\ calls = <<[content |-> <<"H", "i">>, isFinished |-> FALSE],
                 [content |-> <<"x">>, isFinished |-> FALSE],
                 [content |-> <<>>, isFinished |-> TRUE]>>

\* C3: for every body that contains the line data: [DONE], a decode call with
\* a callback makes exactly one finished call, whatever follows that line.
C3_TerminatorDispatch ==
    (/\ ret.returned
     /\ callback = "set"
     /\ \E i \in 1..Len(body) : Lines[body[i]] = DoneLine)
        => Cardinality(FinishedCalls) = 1

\* C4: a body that ends without an end marker and without a read error makes
\* the call return no error and the content folded so far, and the callback is
\* never called with finished = true.
C4_AbruptClose ==
    (/\ fn \in Functions
     /\ ret.returned
     /\ scanErr = "nil"
     /\ \A i \in 1..Len(body) : LineBranch[body[i]] # "done")
        => /\ ~ret.err
           /\ Returned.Choices[1].Message.Content = contentBuilder
           /\ contentBuilder = Concat(ChunksBefore(body))
           /\ FinishedCalls = {}

\* C4 witness: content was folded and notified, the body ended without an end
\* marker, the call returned.
C4_Witness ==
    /\ ReturnedOK
    /\ callback = "set"
    /\ \A i \in 1..Len(body) : LineBranch[body[i]] # "done"
    /\ Len(calls) = 2
    /\ Returned.Choices[1].Message.Content = <<"x", "H", "i">>

\* The locals of a call of f when its loop has worked through texts, from the
\* locals st.
RECURSIVE RunLines(_, _, _, _, _)
RunLines(f, cb, lg, st, texts) ==
    IF texts = <<>> \/ st.pc # "Reading" THEN st
    ELSE IF ByteLen(Head(texts)) >= MaxScanTokenSize
         THEN [st EXCEPT !.pc = "Failed"]
    ELSE RunLines(f, cb, lg, LoopBody(f, cb, lg, st, Head(texts)),
                  Tail(texts))

\* The locals of a fresh call.
FreshLocals ==
    [result |-> NewResult, contentBuilder |-> <<>>, calls |-> <<>>,
     pc |-> "Reading"]

\* Line i of Lines is a data line whose payload fails to decode.
IsMalformed(i) == LineFits[i] /\ LineBranch[i] = "malformed"

\* Body b without its malformed data lines.
NoMalformed(b) == SelectSeq(b, LAMBDA i : ~IsMalformed(i))

\* The locals of the present call, had the lines read so far held no
\* malformed data line.
AsIfSkipped ==
    RunLines(fn, callback, logger, FreshLocals,
             Texts(NoMalformed(SubSeq(body, 1, pos))))

\* C5: a data line whose payload fails to decode is skipped. At every point
\* of a call, and in what it returns, the result, the content buffer and the
\* calls made are those of the same call on the lines read so far without
\* their malformed lines, and the call is still reading after such a line.
C5_MalformedSkipped ==
    (pc \notin {"Boot", "Idle"}) =>
        LET skipped == AsIfSkipped
        IN  /\ contentBuilder = skipped.contentBuilder
            /\ calls = skipped.calls
            /\ pc \in {"Reading", "Terminated"} =>
                   /\ result = skipped.result
                   /\ pc = skipped.pc
            /\ ReturnedOK =>
                   Returned = Final(fn, skipped.result,
                                    skipped.contentBuilder)
            /\ (pos > 0 /\ IsMalformed(body[pos])) =>
                   pc \in {"Reading", "EndOfStream", "Failed", "Returned"}

\* C5 witness: a malformed line between two chunks, both folded.
C5_Witness ==
    /\ ReturnedOK
    /\ Len(body) = 3
    /\ Branch(Lines[body[1]]) = "chunk"
    /\ IsMalformed(body[2])
    /\ Branch(Lines[body[3]]) = "chunk"
    /\ Returned.Choices[1].Message.Content = <<"H", "i", "x">>

\* The first chunk that carries a non-empty id, model or creation time.
CarriesMetadata(chunk) ==
    chunk.ID # <<>> \/ chunk.Model # <<>> \/ chunk.Created # 0

FirstWithMetadata(chunks) ==
    CHOOSE k \in 1..Len(chunks) :
        /\ CarriesMetadata(chunks[k])
        /\ \A j \in 1..(k - 1) : ~CarriesMetadata(chunks[j])

\* C6: the id, model and creation time of the result returned are those of
\* the first decoded chunk that carried non-empty values, never those of a
\* later chunk.
C6_MetadataLatch ==
    (/\ ReturnedOK
     /\ \E k \in 1..Len(ChunksBefore(body)) :
            CarriesMetadata(ChunksBefore(body)[k]))
        => LET chunks == ChunksBefore(body)
               first == chunks[FirstWithMetadata(chunks)]
           IN  /\ Returned.ID = first.ID
               /\ Returned.Model = first.Model
               /\ Returned.Created = first.Created

\* The chunks whose first choice carries a finish reason / a usage.
HasFinishReason(chunk) ==
    Len(chunk.Choices) > 0 /\ ~chunk.Choices[1].FinishReason.nil

HasUsage(chunk) == Len(chunk.Choices) > 0 /\ ~chunk.Choices[1].Usage.nil

\* The last position of chunks that satisfies Has, 0 when there is none.
LastWith(chunks, Has(_)) ==
    IF \E k \in 1..Len(chunks) : Has(chunks[k])
    THEN CHOOSE k \in 1..Len(chunks) :
             /\ Has(chunks[k])
             /\ \A j \in (k + 1)..Len(chunks) : ~Has(chunks[j])
    ELSE 0

\* C7: the finish reason of the result returned is that of the last decoded
\* chunk before the end marker whose first choice carries a non-null one; a
\* later chunk without one does not clear it; with no such chunk it is empty.
C7_FinishReason ==
    ReturnedOK =>
        LET chunks == ChunksBefore(body)
            k == LastWith(chunks, HasFinishReason)
        IN  Returned.Choices[1].FinishReason =
                IF k = 0 THEN <<>> ELSE chunks[k].Choices[1].FinishReason.val

\* C7 witness: "len", then "stop", then a chunk without a finish reason.
C7_Witness ==
    /\ ReturnedOK
    /\ Len(body) = 3
    /\ Lines[body[1]] = <<DataWord, Sp, Json(ChunkB)>>
    /\ Lines[body[2]] = <<DataWord, Sp, Json(ChunkC)>>
    /\ Lines[body[3]] = <<DataWord, Sp, Json(ChunkA)>>
    /\ Returned.Choices[1].FinishReason = <<"s", "t", "o", "p">>

\* C8: the usage of the result returned is, as a whole triple, that of the
\* last decoded chunk whose first choice carries a usage object, and all
\* zeros when no chunk carries one.
C8_Usage ==
    ReturnedOK =>
        LET chunks == ChunksBefore(body)
            k == LastWith(chunks, HasUsage)
        IN  Returned.Usage =
                IF k = 0 THEN ZeroUsage ELSE chunks[k].Choices[1].Usage.val

\* C8 witness: usage (3, 2, 5), then usage (1, 1, 2), then a chunk without.
C8_Witness ==
    /\ ReturnedOK
    /\ Len(body) = 3
    /\ Lines[body[1]] = <<DataWord, Sp, Json(ChunkC)>>
    /\ Lines[body[2]] = <<DataWord, Sp, Json(ChunkB)>>
    /\ Lines[body[3]] = <<DataWord, Sp, Json(ChunkA)>>
    /\ Returned.Usage = [PromptTokens |-> 1, CompletionTokens |-> 1,
                         TotalTokens |-> 2]

\* C9: a body with no line, or with blank and unrecognized lines only, that
\* reaches its end makes the call return no error and a result with empty
\* content, no finish reason and a usage of zeros, without any call of the
\* callback.
C9_EmptyStream ==
    (/\ fn \in Functions
     /\ ret.returned
     /\ scanErr # "io"
     /\ \A i \in 1..Len(body) : LineBranch[body[i]] \in {"blank", "other"})
        => /\ ~ret.err
           /\ Returned.Choices[1].Message.Content = <<>>
           /\ Returned.Choices[1].FinishReason = <<>>
           /\ Returned.Usage = ZeroUsage
           /\ calls = <<>>

\* C10: every result returned without error has exactly one choice, with
\* index 0 and the assistant role.
C10_ResultShape ==
    ReturnedOK =>
        /\ Len(Returned.Choices) = 1
        /\ Returned.Choices[1].Index = 0
        /\ Returned.Choices[1].Message.Role = AssistantRole

\* C10 witness: a result was returned after a chunk whose first choice has
\* index 1 and the user role was folded.
C10_Witness ==
    /\ ReturnedOK
    /\ Carries(ChunkB)
    /\ Returned.ID = <<"c", "2">>
    /\ Returned.Choices[1].Message.Content = <<"x">>

\* C11: when the read of the body fails, the call returns an error and no
\* result, and the callback is never called with finished = true.
C11_TransportFailure ==
    (pc \notin {"Boot", "Idle"} /\ scanErr = "io") =>
        /\ FinishedCalls = {}
        /\ ret.returned => (ret.err /\ ret.result = Nil)

\* C12: in every call of ParseResponse, ParseStreamResponse and
\* ParseStreamResponseWithCallback the body is closed exactly once, when the
\* call returns, whether it ends at the end marker, at the end of the body or
\* on an error; it is not closed while the call still reads or decodes.
C12_GuaranteedRelease ==
    /\ closed \in {0, 1}
    /\ (closed = 1) <=> ret.returned
    /\ ret.returned <=> (pc = "Returned")
    /\ pc \in {"Reading", "Terminated", "EndOfStream", "Failed", "ReadAll",
               "Unmarshal"} => closed = 0

\* C12 witness: a stream call read two lines, the read failed, the call
\* returned the error and the body was closed once.
C12_Witness ==
    /\ fn \in Functions
    /\ pos = 2
    /\ scanErr = "io"
    /\ ret.returned
    /\ ret.err
    /\ closed = 1

\* C13: every result a stream decode call returns without error has the
\* object "chat.completion", whatever object the chunks carried.
C13_KindNormalisation == ReturnedOK => Returned.Object = ChatCompletion

\* C14: at every point of a stream decode call that has decoded a chunk, the
\* id, creation time, model and object of the result are those written by the
\* first decoded chunk, whatever its field values; no later chunk changes
\* them.
C14_MetadataSetOnce ==
    (fn \in Functions /\ pc \notin {"Boot", "Idle"}) =>
        LET chunks == ChunksBefore(SubSeq(body, 1, pos))
        IN  Len(chunks) > 0 =>
                /\ result.ID = chunks[1].ID
                /\ result.Created = chunks[1].Created
                /\ result.Model = chunks[1].Model
                /\ result.Object = ChatCompletion

\* The class C15 gives a line as the scanner hands it out, that is without
\* its line terminator and otherwise untouched.
Classify(text) ==
    IF text = <<>> THEN "Separator"
    ELSE IF text = DoneLine THEN "Terminator"
    ELSE IF HasPrefix(text) THEN "DataFrame"
    ELSE "Unrecognized"

\* The locals of a call of f after a line handled according to its class: the
\* end marker ends the loop, the payload of a data frame (what follows the
\* prefix) is decoded and folded, the other lines do nothing.
ActOnClass(f, cb, lg, st, text) ==
    IF Classify(text) = "Terminator"
    THEN IF f = "ParseStreamResponse" THEN PSR_Done(st)
         ELSE PSRC_Done(st, cb)
    ELSE IF Classify(text) = "DataFrame"
    THEN IF f = "ParseStreamResponse" THEN PSR_Data(st, lg, JsonData(text))
         ELSE PSRC_Data(st, cb, lg, JsonData(text))
    ELSE st

RECURSIVE RunClassified(_, _, _, _, _)
RunClassified(f, cb, lg, st, texts) ==
    IF texts = <<>> \/ st.pc # "Reading" THEN st
    ELSE RunClassified(f, cb, lg, ActOnClass(f, cb, lg, st, Head(texts)),
                       Tail(texts))

\* C15: the decoder handles every line it reads according to the class of the
\* line as read: nothing for an empty line, the end of the loop for the line
\* that equals data: [DONE], decode and fold of what follows the prefix for a
\* line that begins with "data: ", nothing for any other line, lines with
\* spaces in front or behind and data: without a space included.
C15_LineClassification ==
    (fn \in Functions /\ pc \in {"Reading", "Terminated"}) =>
        LET st == RunClassified(fn, callback, logger, FreshLocals,
                                Texts(SubSeq(body, 1, pos)))
        IN  /\ result = st.result
            /\ contentBuilder = st.contentBuilder
            /\ calls = st.calls
            /\ pc = st.pc

\* C16: a stream decode call fails, and returns an error, only when the read
\* of the body reported an I/O error; no line makes it fail, and after every
\* line that is not the end marker the loop reads on.
C16_FailureOnlyFromRead ==
    (fn \in Functions /\ pc \notin {"Boot", "Idle"}) =>
        /\ (pc = "Failed" \/ (ret.returned /\ ret.err)) => scanErr = "io"
        /\ (pc = "Terminated") => LineBranch[body[pos]] = "done"

\* The position of the first end marker among the lines read.
FirstDone ==
    CHOOSE k \in 1..pos :
        /\ LineBranch[body[k]] = "done"
        /\ \A j \in 1..(k - 1) : LineBranch[body[j]] # "done"

\* C17: once a stream decode call has read the first line data: [DONE], it
\* reads, folds and notifies no later line: the lines read end with that
\* line, and the calls made, the content buffer and the result returned are
\* those of the same call on the body cut right after that line.
C17_TerminatorStopsFold ==
    (/\ fn \in Functions
     /\ pc \notin {"Boot", "Idle"}
     /\ \E k \in 1..pos : LineBranch[body[k]] = "done")
        => LET cut == RunLines(fn, callback, logger, FreshLocals,
                               Texts(SubSeq(body, 1, FirstDone)))
           IN  /\ pos = FirstDone
               /\ pc \in {"Terminated", "Returned"}
               /\ calls = cut.calls
               /\ contentBuilder = cut.contentBuilder
               /\ pc = "Terminated" => result = cut.result
               /\ ReturnedOK =>
                      Returned = Final(fn, cut.result, cut.contentBuilder)

\* C17 witness: a chunk, the end marker and a further chunk; the call
\* returned after two lines and two calls of the callback.
C17_Witness ==
    /\ ReturnedOK
    /\ callback = "set"
    /\ Len(body) = 3
    /\ LineBranch[body[1]] = "chunk"
    /\ LineBranch[body[2]] = "done"
    /\ LineBranch[body[3]] = "chunk"
    /\ Fragment(LineChunk[body[3]]) # <<>>
    /\ pos = 2
    /\ Len(calls) = 2

\* Every read returns and the callback returns: a step that can be taken is
\* taken.
LiveSpec == Init /\ [][Next]_vars /\ WF_vars(Next)

\* The states in which the loop of a stream decode call has ended.
LoopEnded == {"Terminated", "EndOfStream", "Failed"}

\* A stream decode call starts reading and its loop ends.
C18_Progress ==
    /\ [][pc = "Idle" /\ fn' \in Functions => pc' = "Reading"]_vars
    /\ (fn \in Functions /\ pc = "Reading") ~> (pc \in LoopEnded)

\* Once the loop has ended no line is read and no call of the callback made,
\* and the state is not left for another of the three.
TerminalStep ==
    pc \in LoopEnded =>
        /\ pos' = pos
        /\ calls' = calls
        /\ pc' \in {pc, "Returned"}

C18_Terminal == [][TerminalStep]_vars

\* The loop ends as Terminated only on the end marker, as EndOfStream only
\* when the body is exhausted, as Failed only on a read error; a call whose
\* loop ended as Terminated or EndOfStream does not return an error.
CauseStep ==
    /\ (pc = "Reading" /\ pc' = "Terminated") =>
           LineBranch[body[pos + 1]] = "done"
    /\ (pc = "Reading" /\ pc' = "EndOfStream") =>
           (pos = Len(body) /\ scanErr' = "nil")
    /\ (pc = "Reading" /\ pc' = "Failed") => scanErr' = "io"
    /\ (pc \in {"Terminated", "EndOfStream"} /\ pc' = "Returned") =>
           ~ret'.err

C18_Causes == [][CauseStep]_vars

\* C18: a stream decode call starts in Reading and, every read and every
\* call of the callback returning, eventually reaches exactly one of
\* Terminated, EndOfStream and Failed; the three are terminal; Terminated is
\* entered only on the end marker, Failed only on a read error, EndOfStream
\* only when the body is exhausted.
C18_DecodeStateMachine == C18_Progress /\ C18_Terminal /\ C18_Causes

\* A step of the loop that folds a decoded chunk changes the content buffer,
\* the calls, the finish reason and the usage by what the first choice of the
\* chunk carries, and by nothing else.
FirstChoiceStep ==
    (/\ fn \in Functions
     /\ pc = "Reading"
     /\ pos' = pos + 1
     /\ LineBranch[body[pos + 1]] = "chunk")
        => LET chunk == LineChunk[body[pos + 1]]
           IN  /\ contentBuilder' = contentBuilder \o Fragment(chunk)
               /\ calls' =
                      IF callback = "set" /\ Fragment(chunk) # <<>>
                      THEN Append(calls, [content |-> Fragment(chunk),
                                          isFinished |-> FALSE])
                      ELSE calls
               /\ result'.Choices[1].FinishReason =
                      IF HasFinishReason(chunk)
                      THEN chunk.Choices[1].FinishReason.val
                      ELSE result.Choices[1].FinishReason
               /\ result'.Usage =
                      IF HasUsage(chunk) THEN chunk.Choices[1].Usage.val
                      ELSE result.Usage

\* C19: of every decoded chunk only the first choice is processed, whatever
\* its index: the content, finish reason and usage of the choices after it
\* change neither the content buffer nor the finish reason nor the usage of
\* the result, and cause no call of the callback.
C19_OnlyFirstChoice == [][FirstChoiceStep]_vars

\* C19 witness: after a chunk with content, a chunk whose second choice
\* carries content, a finish reason and a usage was folded; the buffer, the
\* finish reason, the usage and the calls are as before it.
C19_Witness ==
    /\ callback = "set"
    /\ pc = "Reading"
    /\ pos = 2
    /\ Lines[body[1]] = <<DataWord, Sp, Json(ChunkA)>>
    /\ Lines[body[2]] = <<DataWord, Sp, Json(ChunkE)>>
    /\ Len(LineChunk[body[2]].Choices) = 2
    /\ LineChunk[body[2]].Choices[2].Delta.Content = <<"z">>
    /\ contentBuilder = <<"H", "i">>
    /\ Len(calls) = 1
    /\ result.Choices[1].FinishReason = <<>>
    /\ result.Usage = ZeroUsage

\* Line i of Lines is one of the frames C20 names: an empty line, an
\* unrecognized line, a data frame whose chunk decodes and has no choices, or
\* one whose first choice has no content, no finish reason and no usage.
NoOpFrame(i) ==
    \/ Classify(Lines[i]) \in {"Separator", "Unrecognized"}
    \/ /\ Classify(Lines[i]) = "DataFrame"
       /\ ~Decoded[JsonData(Lines[i])].err
       /\ LET chunk == Decoded[JsonData(Lines[i])].chunk
          IN  /\ Fragment(chunk) = <<>>
              /\ ~HasFinishReason(chunk)
              /\ ~HasUsage(chunk)

\* The step on such a frame leaves the content buffer, the finish reason, the
\* usage and the calls as they are, and the loop goes on to the next line.
NoOpStep ==
    (/\ fn \in Functions
     /\ pc = "Reading"
     /\ pos < Len(body)
     /\ NoOpFrame(body[pos + 1])
     /\ (pos' # pos \/ pc' # pc))
        => /\ contentBuilder' = contentBuilder
           /\ result'.Choices[1].FinishReason = result.Choices[1].FinishReason
           /\ result'.Usage = result.Usage
           /\ calls' = calls
           /\ scanErr' = scanErr
           /\ pos' = pos + 1
           /\ pc' = "Reading"

\* C20: an empty line, an unrecognized line, a decoded chunk without choices
\* and a decoded chunk whose first choice has no content, finish reason or
\* usage each leave the content buffer, the finish reason and the usage
\* unchanged, cause no call of the callback and no error, and the loop goes on
\* with the next line.
C20_NoOpFrames == [][NoOpStep]_vars

\* The locals of a call of function f with callback cb on the lines the
\* present call has read.
SameLines(f, cb) ==
    RunLines(f, cb, logger, FreshLocals, Texts(SubSeq(body, 1, pos)))

\* C21: on the same body, ParseStreamResponse and
\* ParseStreamResponseWithCallback, with no callback or with one, go through
\* the same loop states with the same result and content buffer, end the same
\* way and return equal results and the same error or no error; the callback
\* does not change the result.
C21_CallbackIndependence ==
    (fn \in Functions /\ pc \notin {"Boot", "Idle"}) =>
        \A f \in Functions, cb \in {"nil", "set"} :
            (f = "ParseStreamResponse" => cb = "nil") =>
                LET o == SameLines(f, cb)
                IN  /\ contentBuilder = o.contentBuilder
                    /\ pc \in {"Reading", "Terminated"} =>
                           (pc = o.pc /\ result = o.result)
                    /\ pc \in {"EndOfStream", "Failed"} =>
                           (o.pc = "Reading" /\ result = o.result)
                    /\ ret.returned => (ret.err <=> scanErr # "nil")
                    /\ ReturnedOK =>
                           Returned = Final(f, o.result, o.contentBuilder)

\* C21 witness: ParseStreamResponse returned the result of three chunks with
\* content, finish reason and usage, the one ParseStreamResponseWithCallback
\* with a callback builds from the same lines while it makes three calls.
C21_Witness ==
    /\ fn = "ParseStreamResponse"
    /\ ReturnedOK
    /\ Len(body) = 3
    /\ Lines[body[1]] = <<DataWord, Sp, Json(ChunkA)>>
    /\ Lines[body[2]] = <<DataWord, Sp, Json(ChunkB)>>
    /\ Lines[body[3]] = DoneLine
    /\ Returned.Choices[1].Message.Content = <<"H", "i", "x">>
    /\ Returned.Usage # ZeroUsage
    /\ Len(SameLines("ParseStreamResponseWithCallback", "set").calls) = 3
    /\ Returned = Final("ParseStreamResponseWithCallback",
                        SameLines("ParseStreamResponseWithCallback",
                                  "set").result,
                        SameLines("ParseStreamResponseWithCallback",
                                  "set").contentBuilder)

\* The contents passed in a sequence of calls, concatenated in order.
RECURSIVE Notified(_)
Notified(cs) ==
    IF cs = <<>> THEN <<>> ELSE Head(cs).content \o Notified(Tail(cs))

\* C22: with a callback, after every line and at every exit of the call, the
\* failed one included, the contents passed to the callback so far,
\* concatenated, equal the content buffer; the content of a result returned
\* is what the callback was given.
C22_NotifiedEqualsAccumulated ==
    (/\ fn = "ParseStreamResponseWithCallback"
     /\ callback = "set"
     /\ pc \notin {"Boot", "Idle"})
        => /\ Notified(calls) = contentBuilder
           /\ ReturnedOK =>
                  Notified(calls) = Returned.Choices[1].Message.Content

\* C22 witness: two fragments were notified, then the read failed and the
\* call returned an error.
C22_Witness ==
    /\ fn = "ParseStreamResponseWithCallback"
    /\ callback = "set"
    /\ ret.returned
    /\ ret.err
    /\ scanErr = "io"
    /\ Len(calls) = 2
    /\ Notified(calls) = <<"H", "i", "x">>
    /\ contentBuilder = <<"H", "i", "x">>

\* ------------------------------------------------------------------------
\* The loop of main
\* ------------------------------------------------------------------------
MaxInputs == 3

\* SysRole Role = "system", UserRole Role = "user"
SysRole == <<"s", "y", "s", "t", "e", "m">>

UserRole == <<"u", "s", "e", "r">>

\* global.GetSystemPrompt(): the default prompt or the one entered
SystemPrompts == {<<Lit(<<"d", "e", "f", "a", "u", "l", "t">>)>>,
                  <<Lit(<<"c", "u", "s", "t", "o", "m">>)>>}

\* "!quit"
QuitWord == Lit(<<"!", "q", "u", "i", "t">>)

\* A question
Question == Lit(<<"9", ".", "9", "?">>)

\* The lines os.Stdin delivers: an empty one, one of spaces, the quit word
\* with spaces around it, and questions, one of them with spaces around it.
Inputs ==
    {<<>>, <<Sp, Sp>>, <<Sp, QuitWord, Sp>>, <<Question>>,
     <<Sp, Question, Sp, Question, Sp>>}

\* The bodies of the responses c.Do returns to main: an empty one, a chunk
\* without end marker, two chunks and the end marker, an empty line with a
\* malformed and an unrecognized line, and a line of 64 KiB.
Responses == {<<>>, <<4>>, <<4, 5, 2>>, <<1, 9, 3>>, <<11>>} \cap Bodies

\* main: the system message is the first of messages
InitMessages ==
    /\ pc = "Idle"
    /\ \E prompt \in SystemPrompts :
           messages' = <<[Role |-> SysRole, Content |-> prompt]>>
    /\ pc' = "Prompt"
    /\ UNCHANGED <<logger, fn, callback, body, pos, scanErr, result,
                   contentBuilder, calls, ret, closed, requests, stdin>>

\* if !scanner.Scan() { break }
InputEnds ==
    /\ pc = "Prompt"
    /\ pc' = "Exited"
    /\ UNCHANGED <<logger, fn, callback, body, pos, scanErr, result,
                   contentBuilder, calls, ret, closed>>
    /\ UNCHANGED mainVars

\* if msg == "" { continue }
BlankInput ==
    /\ pc = "Prompt"
    /\ Len(stdin) < MaxInputs
    /\ \E text \in Inputs :
           /\ TrimSpace(text) = <<>>
           /\ stdin' = Append(stdin, text)
    /\ UNCHANGED <<logger, pc, fn, callback, body, pos, scanErr, result,
                   contentBuilder, calls, ret, closed, messages, requests>>

\* if msg == "!quit" { break }
QuitInput ==
    /\ pc = "Prompt"
    /\ Len(stdin) < MaxInputs
    /\ \E text \in Inputs :
           /\ TrimSpace(text) = <<QuitWord>>
           /\ stdin' = Append(stdin, text)
    /\ pc' = "Exited"
    /\ UNCHANGED <<logger, fn, callback, body, pos, scanErr, result,
                   contentBuilder, calls, ret, closed, messages, requests>>

\* Any other input: the user message is appended and the request built from
\* messages (BuildStreamRequest).
QuestionInput ==
    /\ pc = "Prompt"
    /\ Len(stdin) < MaxInputs
    /\ \E text \in Inputs :
           LET msg == TrimSpace(text)
           IN  /\ msg # <<>>
               /\ msg # <<QuitWord>>
               /\ stdin' = Append(stdin, text)
               /\ messages' =
                      Append(messages, [Role |-> UserRole, Content |-> msg])
               /\ requests' = Append(requests, messages')
    /\ pc' = "Sending"
    /\ UNCHANGED <<logger, fn, callback, body, pos, scanErr, result,
                   contentBuilder, calls, ret, closed>>

\* c.Do(req) returns an error: logger.Fatal ends the program.
DoFails ==
    /\ pc = "Sending"
    /\ pc' = "Fatal"
    /\ UNCHANGED <<logger, fn, callback, body, pos, scanErr, result,
                   contentBuilder, calls, ret, closed>>
    /\ UNCHANGED mainVars

\* c.Do(req) returns a response and ParseStreamResponseWithCallback is called
\* on it with printContent.
DoSucceeds ==
    /\ pc = "Sending"
    /\ fn' = "ParseStreamResponseWithCallback"
    /\ callback' = "set"
    /\ \E b \in Responses : body' = b
    /\ pos' = 0
    /\ scanErr' = "nil"
    /\ result' = NewResult
    /\ contentBuilder' = <<>>
    /\ calls' = <<>>
    /\ ret' = NoRet
    /\ closed' = 0
    /\ pc' = "Reading"
    /\ UNCHANGED logger
    /\ UNCHANGED mainVars

\* The decode returned an error: logger.Fatal ends the program.
ParseFails ==
    /\ pc = "Returned"
    /\ ret.err
    /\ pc' = "Fatal"
    /\ UNCHANGED <<logger, fn, callback, body, pos, scanErr, result,
                   contentBuilder, calls, ret, closed>>
    /\ UNCHANGED mainVars

\* Mutant of AppendReply: an empty answer is not kept.
AppendReply_SkipsEmpty ==
    /\ pc = "Returned"
    /\ ~ret.err
    /\ messages' =
           IF ret.result.val.Choices[1].Message.Content # <<>>
           THEN Append(messages,
                       [Role |-> AssistantRole,
                        Content |-> ret.result.val.Choices[1].Message.Content])
           ELSE messages
    /\ pc' = "Prompt"
    /\ UNCHANGED <<logger, fn, callback, body, pos, scanErr, result,
                   contentBuilder, calls, ret, closed, requests, stdin>>

\* The decode returned a result: the answer is appended to messages and the
\* loop goes on.
AppendReply ==
    /\ pc = "Returned"
    /\ ~ret.err
    /\ messages' =
           IF Len(ret.result.val.Choices) > 0
           THEN Append(messages,
                       [Role |-> AssistantRole,
                        Content |-> ret.result.val.Choices[1].Message.Content])
           ELSE messages
    /\ pc' = "Prompt"
    /\ UNCHANGED <<logger, fn, callback, body, pos, scanErr, result,
                   contentBuilder, calls, ret, closed, requests, stdin>>

MainNext ==
    \/ InitComponents
    \/ InitMessages
    \/ InputEnds
    \/ BlankInput
    \/ QuitInput
    \/ QuestionInput
    \/ DoFails
    \/ DoSucceeds
    \/ BlankLine
    \/ TerminatorLine
    \/ MalformedLine
    \/ ChunkLine
    \/ OtherLine
    \/ EndOfStream
    \/ ReadErrorInLine
    \/ ReadError
    \/ LineTooLong
    \/ ReturnResult
    \/ ReturnError
    \/ ParseFails
    \/ AppendReply

MainSpec == Init /\ [][MainNext]_vars

\* A message list is the system message followed by user and assistant
\* messages in strict alternation, the user first.
Alternating(ms) ==
    /\ Len(ms) >= 1
    /\ ms[1].Role = SysRole
    /\ \A i \in 2..Len(ms) :
           ms[i].Role = IF i % 2 = 0 THEN UserRole ELSE AssistantRole

\* The lines read from os.Stdin that were questions, trimmed, in order.
Questions ==
    SelectSeq([i \in 1..Len(stdin) |-> TrimSpace(stdin[i])],
              LAMBDA msg : msg # <<>> /\ msg # <<QuitWord>>)

\* Request k was built from the system message, the k - 1 turns before it
\* and the new user message; messages still begins with it.
RequestShape(k) ==
    /\ Alternating(requests[k])
    /\ Len(requests[k]) = 2 * k
    /\ requests[k][2 * k] = [Role |-> UserRole, Content |-> Questions[k]]
    /\ Len(messages) >= 2 * k
    /\ requests[k] = SubSeq(messages, 1, 2 * k)

\* In every state of main past the initialisation: every request was built
\* from an alternating list that ends in the new user message, one request
\* per question read; between two turns messages holds one user and one
\* assistant message per request, the last one carrying the content of the
\* result of the last turn; the program has exited without a request pending
\* when the quit word was read.
HistoryShape ==
    (pc \notin {"Boot", "Idle"}) =>
        /\ Alternating(messages)
        /\ Len(requests) = Len(Questions)
        /\ \A k \in 1..Len(requests) : RequestShape(k)
        /\ Len(messages) =
               IF pc \in {"Prompt", "Exited"} THEN 1 + 2 * Len(requests)
               ELSE 2 * Len(requests)
        /\ (pc = "Prompt" /\ Len(requests) > 0) =>
               /\ ReturnedOK
               /\ messages[Len(messages)] =
                      [Role |-> AssistantRole,
                       Content |-> Returned.Choices[1].Message.Content]
        /\ (stdin # <<>> /\ TrimSpace(stdin[Len(stdin)]) = <<QuitWord>>) =>
               pc = "Exited"

\* A blank input, the quit word and the end of the input build no request
\* and append nothing, and the last two end the loop; a turn that succeeds
\* appends one assistant message, a question one user message.
HistoryStep ==
    /\ (pc = "Prompt" /\ pc' \in {"Prompt", "Exited"}) =>
           (messages' = messages /\ requests' = requests)
    /\ (pc = "Prompt" /\ stdin' = stdin) => pc' = "Exited"
    /\ (pc = "Prompt" /\ stdin' # stdin
            /\ TrimSpace(stdin'[Len(stdin')]) = <<>>) => pc' = "Prompt"
    /\ (pc = "Prompt" /\ pc' = "Sending") =>
           (Len(messages') = Len(messages) + 1
                /\ Len(requests') = Len(requests) + 1)
    /\ (pc = "Returned" /\ pc' = "Prompt") =>
           (Len(messages') = Len(messages) + 1 /\ requests' = requests)
    /\ (pc \notin {"Prompt", "Returned", "Boot", "Idle"}) =>
           (messages' = messages /\ requests' = requests)

\* C23: in the loop of main, every request is built from the system message
\* followed by user and assistant messages in strict alternation that end in
\* the new user message; a turn that succeeds appends one user and one
\* assistant message, the latter with the content of the first choice of the
\* turn's result; a blank input sends nothing and appends nothing; the quit
\* word and the end of the input end the loop without a request.
C23_ConversationHistory == []HistoryShape /\ [][HistoryStep]_vars

\* C23 witness: after a blank input and two turns, the second with an empty
\* answer, messages holds the system message and both turns.
C23_Witness ==
    /\ pc = "Prompt"
    /\ Len(requests) = 2
    /\ Len(messages) = 5
    /\ messages[3].Content = <<"H", "i", "x">>
    /\ messages[5].Content = <<>>
    /\ \E i \in 1..Len(stdin) : TrimSpace(stdin[i]) = <<>>

====
